---------------------------- MODULE Spec2Model ----------------------------
(***************************************************************************)
(* Visual product matcher backend.                                         *)
(*                                                                         *)
(*   src/app.py         the Flask service: lazily loaded globals (model,   *)
(*                      products), get_image_features, match_products,     *)
(*                      the before_first_request hook initialize, and the  *)
(*                      handlers health and api_match.                     *)
(*   src/check_urls.py  the URL audit script.                              *)
(*                                                                         *)
(* Spec is the service: one action per request served (the hook and the    *)
(* handler of one request run back to back in one thread), plus the        *)
(* deployment writing products.json.  MatchSpec is one match request after *)
(* a completed preload, against every catalog and every combination of    *)
(* per-product outcomes.  AuditSpec is the audit script, one               *)
(* action per loop iteration and one for the report.                       *)
(*                                                                         *)
(* Modelling notes.                                                        *)
(*  - Scores.  `(upload_features @ prod_features.T).item()` is a float32   *)
(*    (float16 on cuda) widened to a Python float.  A score is modelled as *)
(*    an integer number of float32 ulps of the binade [0.5, 1), that is    *)
(*    in units of 2^-24; the threshold literal 0.7 is the ratio            *)
(*    ThresholdNum / ThresholdDen, which lies strictly between two         *)
(*    neighbouring float32 values (0.7 * 2^24 = 11744051.2).  The double   *)
(*    0.7 lies between the same two neighbours, so comparing against the   *)
(*    ratio orders every float32 score as Python does.  NaN scores are     *)
(*    left out: encode_image is taken to return a finite, non-zero vector. *)
(*  - products.json, when present, holds a JSON list of objects; an object *)
(*    may lack any of its keys.                                            *)
(*  - The framework.  `@app.before_first_request` (Flask 1.0 to 2.2, the   *)
(*    releases that set _got_first_request after the registered functions  *)
(*    have returned): the hook runs at the start of a request while the    *)
(*    flag is unset; if it raises, the flag stays unset, the handler does  *)
(*    not run and the framework answers 500.                               *)
(***************************************************************************)
EXTENDS Integers, Sequences, FiniteSets, TLC

VARIABLES
    device,           \* app.py:18   "cpu" or "cuda"
    file,             \* products.json on disk: [exists, items]
    model,            \* app.py:15-16 the globals model, preprocess: loaded or None
    products,         \* app.py:17   the global products: [loaded, items]
    gotFirstRequest,  \* the framework's flag behind before_first_request
    served,           \* requests served so far
    modelLoads,       \* successful clip.load calls so far
    productsReads,    \* successful json.load calls of products.json so far
    preloadRuns,      \* runs of initialize so far
    last,             \* what the last request did and answered
    audit             \* the audit script's state (src/check_urls.py)

vars == <<device, file, model, products, gotFirstRequest, served, modelLoads,
          productsReads, preloadRuns, last, audit>>

appVars == <<device, file, model, products, gotFirstRequest, served, modelLoads,
             productsReads, preloadRuns, last>>

(***************************************************************************)
(* Bounds of the model and constants of the program.                       *)
(***************************************************************************)
MaxRequests == 3
MaxCat == 2
Extra == 2
MaxAudit == 3

ThresholdNum == 7
ThresholdDen == 10
Limit == 100
StatusActive == 200

Min(a, b) == IF a <= b THEN a ELSE b

(***************************************************************************)
(* Scores, in float32 ulps of [0.5, 1).                                    *)
(***************************************************************************)
Ulps == 2^24

JustBelow == (ThresholdNum * Ulps) \div ThresholdDen
JustAbove == JustBelow + 1
ScoreOne == Ulps
ScoreNeg == -(Ulps \div 4)

ScoreSet == {ScoreNeg, JustBelow, JustAbove, ScoreOne}

PassesLoose(score) == score >= JustBelow

\* app.py:96-97   r["score"] >= THRESHOLD
Passes(score) == score * ThresholdDen >= ThresholdNum * Ulps

(***************************************************************************)
(* The catalog.                                                            *)
(***************************************************************************)
P1 == [id |-> 1, name |-> "shoe", image |-> "http://img/1", category |-> "footwear"]
P2 == [id |-> 2, image |-> "http://img/2"]
PNoId == [name |-> "bag", image |-> "http://img/3"]
PNoImage == [id |-> 4, name |-> "hat"]

ProductPool == {P1, P2, PNoId, PNoImage}

RECURSIVE SeqsUpTo(_, _)
SeqsUpTo(S, n) ==
    IF n = 0 THEN {<<>>}
    ELSE LET shorter == SeqsUpTo(S, n - 1)
         IN shorter \cup {Append(s, x) : s \in {t \in shorter : Len(t) = n - 1}, x \in S}

BigCatalog == [i \in 1..(Limit + Extra) |-> [id |-> i, image |-> "http://img/big"]]

Catalogs == SeqsUpTo(ProductPool, MaxCat) \cup {BigCatalog}

(***************************************************************************)
(* What the network and the vision model give for one catalog product in   *)
(* one request: whether its image loads, and the similarity of its         *)
(* embedding to the query's.                                               *)
(***************************************************************************)
Unloadable == [ok |-> FALSE, sim |-> 0]

OutcomeSet == {Unloadable} \cup {[ok |-> TRUE, sim |-> s] : s \in ScoreSet}

BigPatterns ==
    { [i \in 1..(Limit + Extra) |-> [ok |-> TRUE, sim |-> JustAbove]],
      [i \in 1..(Limit + Extra) |-> [ok |-> TRUE, sim |-> IF i > Extra THEN ScoreOne ELSE JustAbove]],
      [i \in 1..(Limit + Extra) |-> [ok |-> TRUE, sim |-> IF i % 2 = 0 THEN JustAbove ELSE JustBelow]],
      [i \in 1..(Limit + Extra) |-> IF i = Limit THEN Unloadable ELSE [ok |-> TRUE, sim |-> ScoreOne]] }

OutcomesFor(items) ==
    IF Len(items) <= MaxCat THEN [1..Len(items) -> OutcomeSet] ELSE BigPatterns

(***************************************************************************)
(* load_model, load_products.                                              *)
(***************************************************************************)
NoProducts == [loaded |-> FALSE, items |-> <<>>]

\* app.py:24-30.  clipOK: whether clip.load returns (it may raise).
load_model(m, loads, clipOK) ==
    IF m = "None"
    THEN IF clipOK
         THEN [raised |-> FALSE, model |-> "loaded", loads |-> loads + 1]
         ELSE [raised |-> TRUE, model |-> m, loads |-> loads]
    ELSE [raised |-> FALSE, model |-> m, loads |-> loads]

load_products_reload(p, reads, f) ==
    IF ~f.exists
    THEN [raised |-> TRUE, products |-> p, reads |-> reads]
    ELSE [raised |-> FALSE, products |-> [loaded |-> TRUE, items |-> f.items],
          reads |-> reads + 1]

\* app.py:35-45
load_products(p, reads, f) ==
    IF ~p.loaded
    THEN IF ~f.exists
         THEN [raised |-> TRUE, products |-> p, reads |-> reads]
         ELSE [raised |-> FALSE, products |-> [loaded |-> TRUE, items |-> f.items],
               reads |-> reads + 1]
    ELSE [raised |-> FALSE, products |-> p, reads |-> reads]

(***************************************************************************)
(* get_image_features and the similarity.                                  *)
(***************************************************************************)
\* app.py:63  torch.zeros(1, 512) is float32 on either device
Zeros == [kind |-> "zeros", dtype |-> "f32"]

\* app.py:65-69; clip.load gives a float16 model on cuda, float32 on cpu
Encoded(dev) == [kind |-> "feat", dtype |-> IF dev = "cuda" THEN "f16" ELSE "f32"]

get_image_features_no_fallback(ok, dev) == Encoded(dev)

\* app.py:50-69.  ok: whether the image is fetched and decoded.
get_image_features(ok, dev) == IF ok THEN Encoded(dev) ELSE Zeros

\* app.py:82.  The matrix product raises on operands of different dtype.
Similarity(u, p, sim) ==
    IF u.dtype # p.dtype THEN [raised |-> TRUE, score |-> 0]
    ELSE IF u.kind = "zeros" \/ p.kind = "zeros" THEN [raised |-> FALSE, score |-> 0]
    ELSE [raised |-> FALSE, score |-> sim]

(***************************************************************************)
(* match_products.                                                         *)
(***************************************************************************)
Get(p, key) == IF key \in DOMAIN p THEN p[key] ELSE ""

\* app.py:83-89
Entry(p, score) ==
    [id |-> p.id, score |-> score, name |-> Get(p, "name"), image |-> p.image,
     category |-> Get(p, "category")]

ProcessProductIdFirst(st, i, p, upload, out, dev) ==
    LET tried == [st EXCEPT !.attempts = Append(@, i)]
    IN IF "id" \notin DOMAIN p \/ "image" \notin DOMAIN p THEN tried
       ELSE LET got == [tried EXCEPT !.fetched = Append(@, [src |-> "product", ref |-> p.image])]
                s == Similarity(upload, get_image_features(out.ok, dev), out.sim)
            IN IF s.raised THEN got
               ELSE [got EXCEPT !.results = Append(@, Entry(p, s.score)),
                                !.scoredIdx = Append(@, i)]

\* app.py:80-92, one iteration of the loop over the catalog.  st is
\* [fetched, attempts, results, scoredIdx].
ProcessProduct(st, i, p, upload, out, dev) ==
    LET tried == [st EXCEPT !.attempts = Append(@, i)]
    IN IF "image" \notin DOMAIN p THEN tried
       ELSE LET got == [tried EXCEPT !.fetched = Append(@, [src |-> "product", ref |-> p.image])]
                s == Similarity(upload, get_image_features(out.ok, dev), out.sim)
            IN IF s.raised THEN got
               ELSE IF "id" \notin DOMAIN p THEN got
               ELSE [got EXCEPT !.results = Append(@, Entry(p, s.score)),
                                !.scoredIdx = Append(@, i)]

NoSt == [fetched |-> <<>>, attempts |-> <<>>, results |-> <<>>, scoredIdx |-> <<>>]

\* The first n iterations of the loop, appended to st.  An iteration reads
\* nothing that an earlier one appended, so the lists are what each
\* iteration appends, taken in catalog order.
Collect(st, n, items, upload, outs, dev) ==
    LET step(i) == ProcessProduct(NoSt, i, items[i], upload, outs[i], dev)
        idx == [i \in 1..n |-> i]
        tried == SelectSeq(idx, LAMBDA i : step(i).attempts # <<>>)
        fetching == SelectSeq(idx, LAMBDA i : step(i).fetched # <<>>)
        scoring == SelectSeq(idx, LAMBDA i : step(i).results # <<>>)
    IN [fetched |-> st.fetched \o [k \in 1..Len(fetching) |-> step(fetching[k]).fetched[1]],
        attempts |-> st.attempts \o [k \in 1..Len(tried) |-> step(tried[k]).attempts[1]],
        results |-> st.results \o [k \in 1..Len(scoring) |-> step(scoring[k]).results[1]],
        scoredIdx |-> st.scoredIdx
                        \o [k \in 1..Len(scoring) |-> step(scoring[k]).scoredIdx[1]]]

LoopBreak(st, items, upload, outs, dev) ==
    LET failing == {i \in 1..Len(items) :
                       ProcessProduct(NoSt, i, items[i], upload, outs[i], dev).results = <<>>}
        stop == IF failing = {} THEN Len(items)
                ELSE CHOOSE i \in failing : \A j \in failing : i <= j
    IN Collect(st, stop, items, upload, outs, dev)

\* app.py:79-92, the loop over the catalog
Loop(st, items, upload, outs, dev) == Collect(st, Len(items), items, upload, outs, dev)

MaxScore(s) == CHOOSE m \in {s[k].score : k \in DOMAIN s} : \A k \in DOMAIN s : s[k].score <= m

\* app.py:95  results.sort(key=score, reverse=True): stable and descending,
\* so the entries of the highest score come first, in the order they had,
\* and then the others sorted the same way.
RECURSIVE SortDesc(_)
SortDesc(s) ==
    IF Len(s) = 0 THEN <<>>
    ELSE SelectSeq(s, LAMBDA x : x.score = MaxScore(s))
             \o SortDesc(SelectSeq(s, LAMBDA x : x.score < MaxScore(s)))

Threshold(s) == SelectSeq(s, LAMBDA r : Passes(r.score))

TruncateOffByOne(s) == SubSeq(s, 1, Min(Len(s), Limit + 1))

\* app.py:98  results[:100]
Truncate(s) == SubSeq(s, 1, Min(Len(s), Limit))

\* app.py:74-98.  ref: the query image as passed in; queryOK: whether it
\* loads; outs: the outcome for each catalog product.
match_products(p, reads, f, ref, queryOK, outs, dev) ==
    LET lp == load_products(p, reads, f)
    IN IF lp.raised
       THEN [raised |-> TRUE, products |-> lp.products, reads |-> lp.reads,
             fetched |-> <<>>, attempts |-> <<>>, results |-> <<>>,
             scoredIdx |-> <<>>, ret |-> <<>>]
       ELSE LET upload == get_image_features(queryOK, dev)
                st0 == [fetched |-> <<[src |-> "query", ref |-> ref]>>, attempts |-> <<>>,
                        results |-> <<>>, scoredIdx |-> <<>>]
                st == Loop(st0, lp.products.items, upload, outs, dev)
            IN [raised |-> FALSE, products |-> lp.products, reads |-> lp.reads,
                fetched |-> st.fetched, attempts |-> st.attempts,
                results |-> st.results, scoredIdx |-> st.scoredIdx,
                ret |-> Truncate(Threshold(SortDesc(st.results)))]


(***************************************************************************)
(* The hook and the handlers.                                              *)
(***************************************************************************)
initialize_model_only(m, p, loads, reads, f, clipOK) ==
    LET lm == load_model(m, loads, clipOK)
    IN [raised |-> lm.raised, model |-> lm.model, loads |-> lm.loads,
        products |-> p, reads |-> reads, triedProducts |-> FALSE]

\* app.py:110-114.  load_model, then load_products unless load_model raised.
initialize(m, p, loads, reads, f, clipOK) ==
    LET lm == load_model(m, loads, clipOK)
    IN IF lm.raised
       THEN [raised |-> TRUE, model |-> lm.model, loads |-> lm.loads,
             products |-> p, reads |-> reads, triedProducts |-> FALSE]
       ELSE LET lp == load_products(p, reads, f)
            IN [raised |-> lp.raised, model |-> lm.model, loads |-> lm.loads,
                products |-> lp.products, reads |-> lp.reads, triedProducts |-> TRUE]

NoLast ==
    [kind |-> "none", preload |-> "skipped", handlerRan |-> FALSE, status |-> 0,
     body |-> "none", matches |-> <<>>, hasFile |-> FALSE, bodyKind |-> "absent",
     bodyRead |-> FALSE, queryOK |-> FALSE, outs |-> <<>>, runs |-> 0,
     fetched |-> <<>>, attempts |-> <<>>, results |-> <<>>, scoredIdx |-> <<>>,
     catalog |-> <<>>, productsTried |-> FALSE]

\* The answer of the framework when the hook raised: the handler did not run.
FrameworkError(kind, hasFile, bodyKind, tried) ==
    [NoLast EXCEPT !.kind = kind, !.preload = "raised", !.status = 500,
                   !.body = "framework", !.hasFile = hasFile, !.bodyKind = bodyKind,
                   !.productsTried = tried]

BodyKinds == {"absent", "no_url", "empty_url", "url", "array", "malformed"}

\* app.py:134  request.get_json() or {}: None without a JSON body, the parsed
\* value otherwise; malformed JSON raises BadRequest.
get_json(bodyKind) ==
    IF bodyKind = "malformed" THEN [raised |-> TRUE, data |-> "none"]
    ELSE IF bodyKind = "absent" THEN [raised |-> FALSE, data |-> "empty_object"]
    ELSE IF bodyKind = "array" THEN [raised |-> FALSE, data |-> "array"]
    ELSE [raised |-> FALSE, data |-> bodyKind]

\* app.py:135  data.get("image_url"): a list has no attribute get.
image_url_of(data) ==
    IF data = "array" THEN [raised |-> TRUE, url |-> ""]
    ELSE IF data = "url" THEN [raised |-> FALSE, url |-> "http://query/img"]
    ELSE [raised |-> FALSE, url |-> ""]

ErrorAnswer(base, status) == [base EXCEPT !.status = status, !.body = "error"]

MatchAnswer(base, ref, mp, queryOK, outs) ==
    [base EXCEPT !.runs = @ + 1, !.queryOK = queryOK,
                 !.status = IF mp.raised THEN 500 ELSE 200,
                 !.body = IF mp.raised THEN "error" ELSE "list",
                 !.matches = mp.ret, !.fetched = mp.fetched,
                 !.attempts = mp.attempts, !.results = mp.results,
                 !.scoredIdx = mp.scoredIdx,
                 !.outs = IF mp.raised THEN <<>> ELSE outs,
                 !.catalog = mp.products.items]

api_match_both(base, mp_file, mp_url, hasFile, bodyKind, queryOK, outs) ==
    LET gj == get_json(bodyKind)
        iu == image_url_of(gj.data)
        read == [base EXCEPT !.bodyRead = TRUE]
    IN IF gj.raised \/ iu.raised THEN ErrorAnswer(read, 500)
       ELSE IF iu.url = "" /\ ~hasFile THEN ErrorAnswer(read, 400)
       ELSE IF iu.url = "" THEN MatchAnswer(read, "FILE", mp_file, queryOK, outs)
       ELSE MatchAnswer(read, iu.url, mp_url, queryOK, outs)

\* app.py:126-144.  base: the record of the request so far; mp_file, mp_url:
\* what match_products gives for the uploaded file and for the URL.
api_match(base, mp_file, mp_url, hasFile, bodyKind, queryOK, outs) ==
    IF hasFile THEN MatchAnswer(base, "FILE", mp_file, queryOK, outs)
    ELSE LET gj == get_json(bodyKind)
             iu == image_url_of(gj.data)
             read == [base EXCEPT !.bodyRead = TRUE]
         IN IF gj.raised \/ iu.raised THEN ErrorAnswer(read, 500)
            ELSE IF iu.url = "" THEN ErrorAnswer(read, 400)
            ELSE MatchAnswer(read, iu.url, mp_url, queryOK, outs)

(***************************************************************************)
(* The service: Init and one action per request.                           *)
(***************************************************************************)
NoAudit == [catalog |-> <<>>, heads |-> <<>>, i |-> 1, results |-> <<>>,
            report |-> <<>>, pc |-> "off"]

Missing == [exists |-> FALSE, items |-> <<>>]

\* The catalogs the service is run with.
ServiceCatalogs == {<<>>, <<P1>>, <<PNoImage, P2>>}

\* In the service every product of one request gets the same outcome.
UniformOutcomes(items) == {[i \in 1..Len(items) |-> o] : o \in OutcomeSet}

Init ==
    /\ device \in {"cpu", "cuda"}
    /\ file \in {Missing} \cup {[exists |-> TRUE, items |-> c] : c \in ServiceCatalogs}
    /\ model = "None"
    /\ products = NoProducts
    /\ gotFirstRequest = FALSE
    /\ served = 0
    /\ modelLoads = 0
    /\ productsReads = 0
    /\ preloadRuns = 0
    /\ last = NoLast
    /\ audit = NoAudit

\* The start of every request: the before_first_request hook while the flag
\* is unset.
Preload(clipOK) ==
    IF gotFirstRequest
    THEN [ran |-> FALSE, raised |-> FALSE, model |-> model, loads |-> modelLoads,
          products |-> products, reads |-> productsReads, triedProducts |-> FALSE]
    ELSE [ran |-> TRUE] @@ initialize(model, products, modelLoads, productsReads, file, clipOK)

ClipChoices == IF gotFirstRequest THEN {TRUE} ELSE BOOLEAN

Served(pre, answer, bound) ==
    /\ served < bound
    /\ served' = served + 1
    /\ preloadRuns' = preloadRuns + (IF pre.ran THEN 1 ELSE 0)
    /\ gotFirstRequest' = (gotFirstRequest \/ (pre.ran /\ ~pre.raised))
    /\ model' = pre.model
    /\ modelLoads' = pre.loads
    /\ last' = answer
    /\ UNCHANGED <<device, file, audit>>

\* GET /   (app.py:119-121)
Health ==
    /\ served < MaxRequests
    /\ \E clipOK \in ClipChoices :
        LET pre == Preload(clipOK)
        IN /\ products' = pre.products
           /\ productsReads' = pre.reads
           /\ Served(pre,
                     IF pre.raised
                     THEN FrameworkError("health", FALSE, "absent", pre.triedProducts)
                     ELSE [NoLast EXCEPT !.kind = "health", !.handlerRan = TRUE,
                                         !.productsTried = pre.triedProducts,
                                         !.preload = IF pre.ran THEN "ok" ELSE "skipped",
                                         !.status = 200, !.body = "health"],
                     MaxRequests)

RunsMatching(hasFile, bodyKind) == hasFile \/ bodyKind = "url"

\* One POST /api/match: the hook, then api_match (app.py:126-144).
MatchRequest(clipOK, hasFile, bodyKind, queryOK, outs, bound) ==
    LET pre == Preload(clipOK)
    IN IF pre.raised
       THEN /\ products' = pre.products
            /\ productsReads' = pre.reads
            /\ Served(pre, FrameworkError("match", hasFile, bodyKind, pre.triedProducts), bound)
       ELSE LET base == [NoLast EXCEPT !.kind = "match", !.handlerRan = TRUE,
                                       !.preload = IF pre.ran THEN "ok" ELSE "skipped",
                                       !.hasFile = hasFile, !.bodyKind = bodyKind,
                                       !.productsTried = pre.triedProducts]
                mpf == match_products(pre.products, pre.reads, file, "FILE",
                                      queryOK, outs, device)
                mpu == match_products(pre.products, pre.reads, file,
                                      "http://query/img", queryOK, outs, device)
                ans == api_match(base, mpf, mpu, hasFile, bodyKind, queryOK, outs)
            IN /\ products' = IF ans.runs > 0 THEN mpf.products ELSE pre.products
               /\ productsReads' = IF ans.runs > 0 THEN mpf.reads ELSE pre.reads
               /\ Served(pre, ans, bound)

CatalogInUse == IF products.loaded THEN products.items ELSE file.items

\* POST /api/match in the service.
Match ==
    /\ served < MaxRequests
    /\ \E clipOK \in ClipChoices, hasFile \in BOOLEAN, bodyKind \in BodyKinds :
        IF RunsMatching(hasFile, bodyKind)
        THEN \E queryOK \in BOOLEAN, outs \in UniformOutcomes(CatalogInUse) :
                MatchRequest(clipOK, hasFile, bodyKind, queryOK, outs, MaxRequests)
        ELSE MatchRequest(clipOK, hasFile, bodyKind, FALSE, <<>>, MaxRequests)

\* The deployment puts products.json in place.
InstallProductsFile ==
    /\ ~file.exists
    /\ ~products.loaded
    /\ \E c \in ServiceCatalogs : file' = [exists |-> TRUE, items |-> c]
    /\ UNCHANGED <<device, model, products, gotFirstRequest, served, modelLoads,
                   productsReads, preloadRuns, last, audit>>

\* products.json is taken away.
RemoveProductsFile ==
    /\ file.exists
    /\ file' = Missing
    /\ UNCHANGED <<device, model, products, gotFirstRequest, served, modelLoads,
                   productsReads, preloadRuns, last, audit>>

Next == Health \/ Match \/ InstallProductsFile \/ RemoveProductsFile

Spec == Init /\ [][Next]_vars

(***************************************************************************)
(* One match request against each catalog, with every combination of       *)
(* per-product outcomes: the service after a successful preload.           *)
(***************************************************************************)
MatchInit ==
    /\ device \in {"cpu", "cuda"}
    /\ \E c \in Catalogs :
          /\ file = [exists |-> TRUE, items |-> c]
          /\ products = [loaded |-> TRUE, items |-> c]
    /\ model = "loaded"
    /\ gotFirstRequest = TRUE
    /\ served = 0
    /\ modelLoads = 1
    /\ productsReads = 1
    /\ preloadRuns = 1
    /\ last = NoLast
    /\ audit = NoAudit

MatchScored ==
    /\ served < 1
    /\ \E hasFile \in BOOLEAN, bodyKind \in BodyKinds :
        IF RunsMatching(hasFile, bodyKind)
        THEN \E queryOK \in BOOLEAN, outs \in OutcomesFor(products.items) :
                MatchRequest(TRUE, hasFile, bodyKind, queryOK, outs, 1)
        ELSE MatchRequest(TRUE, hasFile, bodyKind, FALSE, <<>>, 1)

MatchNext == MatchScored

MatchSpec == MatchInit /\ [][MatchNext]_vars

(***************************************************************************)
(* The URL audit script, src/check_urls.py.  Every product of its catalog  *)
(* has a "url".                                                            *)
(***************************************************************************)
AuditUrls == {"http://shop/a", "http://shop/b"}

\* What requests.head gives: a response with a status code, or a
\* RequestException.
HeadOutcomes ==
    {[raised |-> FALSE, status |-> c] : c \in {StatusActive, 301, 404}}
        \cup {[raised |-> TRUE, status |-> 0]}

result_line_lenient(url, head) ==
    IF head.raised THEN [label |-> "ERROR", url |-> url, status |-> 0]
    ELSE IF head.status < 400 THEN [label |-> "ACTIVE", url |-> url, status |-> head.status]
    ELSE [label |-> "INACTIVE", url |-> url, status |-> head.status]

\* check_urls.py:16-24
result_line(url, head) ==
    IF head.raised THEN [label |-> "ERROR", url |-> url, status |-> 0]
    ELSE IF head.status = StatusActive
         THEN [label |-> "ACTIVE", url |-> url, status |-> head.status]
         ELSE [label |-> "INACTIVE", url |-> url, status |-> head.status]

AuditInit ==
    /\ device = "cpu"
    /\ file = Missing
    /\ model = "None"
    /\ products = NoProducts
    /\ gotFirstRequest = FALSE
    /\ served = 0
    /\ modelLoads = 0
    /\ productsReads = 0
    /\ preloadRuns = 0
    /\ last = NoLast
    /\ \E c \in SeqsUpTo({[url |-> u] : u \in AuditUrls}, MaxAudit) :
          audit = [catalog |-> c, heads |-> <<>>, i |-> 1, results |-> <<>>,
                   report |-> <<>>, pc |-> "loop"]

\* check_urls.py:14-27, one iteration of the loop
CheckUrl ==
    /\ audit.pc = "loop"
    /\ audit.i <= Len(audit.catalog)
    /\ \E head \in HeadOutcomes :
          audit' = [audit EXCEPT !.heads = Append(@, head),
                                 !.results = Append(@, result_line(audit.catalog[audit.i].url, head)),
                                 !.i = @ + 1]
    /\ UNCHANGED appVars

\* check_urls.py:30-32
WriteReport ==
    /\ audit.pc = "loop"
    /\ audit.i > Len(audit.catalog)
    /\ audit' = [audit EXCEPT !.report = audit.results, !.pc = "done"]
    /\ UNCHANGED appVars

AuditNext == CheckUrl \/ WriteReport

AuditSpec == AuditInit /\ [][AuditNext]_vars

(***************************************************************************)
(* The claims.                                                             *)
(***************************************************************************)
Range(f) == {f[k] : k \in DOMAIN f}

CountIn(f, e) == Cardinality({k \in DOMAIN f : f[k] = e})

\* The last request ran match_products to its end.
Ran == last.kind = "match" /\ last.runs > 0 /\ last.status = 200

\* The reference, from the inputs of the last request: the products that are
\* scored, the score of each, and those that pass the threshold.
RefScorable(i) ==
    /\ "id" \in DOMAIN last.catalog[i]
    /\ "image" \in DOMAIN last.catalog[i]
    /\ ~(device = "cuda" /\ last.queryOK # last.outs[i].ok)

RefScore(i) == IF last.queryOK /\ last.outs[i].ok THEN last.outs[i].sim ELSE 0

RefEntry(i) ==
    LET p == last.catalog[i]
    IN [id |-> p.id, score |-> RefScore(i),
        name |-> IF "name" \in DOMAIN p THEN p.name ELSE "",
        image |-> p.image,
        category |-> IF "category" \in DOMAIN p THEN p.category ELSE ""]

RefPassing ==
    {i \in 1..Len(last.catalog) :
        RefScorable(i) /\ RefScore(i) * ThresholdDen >= ThresholdNum * Ulps}

\* C1: every entry match_products returns has a score strictly above the
\* threshold 0.7.
C1_ScoresAboveThreshold ==
    \A k \in DOMAIN last.matches :
        last.matches[k].score * ThresholdDen > ThresholdNum * Ulps

C1_Witness ==
    /\ Ran
    /\ \E k \in DOMAIN last.matches : last.matches[k].score = JustAbove
    /\ \E k \in DOMAIN last.results : last.results[k].score = JustBelow

\* C2: the returned list is the reference result: the scored products that
\* pass the threshold, in non-increasing order of score, cut to the first
\* Limit; at most Limit entries, and no omitted passing product scores
\* strictly higher than a returned one.
C2_ReferenceResult ==
    Ran =>
        LET m == last.matches
        IN /\ Len(m) = Min(Limit, Cardinality(RefPassing))
           /\ \A k \in 1..(Len(m) - 1) : m[k].score >= m[k + 1].score
           /\ \A e \in Range(m) :
                 CountIn(m, e) <= Cardinality({i \in RefPassing : RefEntry(i) = e})
           /\ \A i \in RefPassing :
                 CountIn(m, RefEntry(i)) < Cardinality({j \in RefPassing : RefEntry(j) = RefEntry(i)})
                     => \A k \in DOMAIN m : m[k].score >= RefScore(i)

C2_Witness ==
    /\ Ran
    /\ Len(last.matches) = Limit
    /\ Len(last.results) > Limit
    /\ last.results[1].score < last.matches[1].score

\* The images of the catalog products that have an "image", in catalog order.
ProductFetches(items) ==
    LET idx == SelectSeq([i \in 1..Len(items) |-> i],
                         LAMBDA i : "image" \in DOMAIN items[i])
    IN [k \in 1..Len(idx) |-> [src |-> "product", ref |-> items[idx[k]].image]]

\* C3 as stated: while a match request is handled the only image fetched
\* and embedded is the query image; no catalog image is.
C3_OnlyQueryFetched ==
    \A k \in DOMAIN last.fetched : last.fetched[k].src = "query"

\* C3 as amended: a match request fetches and embeds the query image once,
\* and then the image of every catalog product that has one, once each, in
\* catalog order; nothing is precomputed.
C3_FetchesEveryProductImage ==
    Ran =>
        /\ last.fetched[1].src = "query"
        /\ SubSeq(last.fetched, 2, Len(last.fetched)) = ProductFetches(last.catalog)

C3_Witness ==
    /\ Ran
    /\ Len(last.fetched) >= 2
    /\ \E i \in DOMAIN last.catalog : "id" \notin DOMAIN last.catalog[i]

\* C4: a POST /api/match with neither an uploaded file nor a non-empty
\* image_url is answered 400 with an error object and runs no matching;
\* every other outcome of the handler is 200 with a list or 500 with an
\* error object.
C4_NeitherGives400 ==
    (last.kind = "match" /\ last.handlerRan) =>
        IF ~last.hasFile /\ last.bodyKind # "url"
        THEN /\ last.status = 400
             /\ last.body = "error"
             /\ last.runs = 0
             /\ last.fetched = <<>>
             /\ last.results = <<>>
        ELSE \/ last.status = 200 /\ last.body = "list"
             \/ last.status = 500 /\ last.body = "error"

C6_FailureSkipsOneProduct ==
    (last.kind = "match" /\ last.runs > 0) =>
        /\ last.status = 200 /\ last.body = "list"
        /\ last.runs = 1
        /\ last.attempts = [i \in 1..Len(last.catalog) |-> i]
        /\ Range(last.scoredIdx) = {i \in 1..Len(last.catalog) : RefScorable(i)}
        /\ \A k \in 1..(Len(last.scoredIdx) - 1) : last.scoredIdx[k] < last.scoredIdx[k + 1]
        /\ Len(last.results) = Len(last.scoredIdx)
        /\ \A k \in DOMAIN last.scoredIdx : last.results[k] = RefEntry(last.scoredIdx[k])

C6_Witness ==
    /\ Ran
    /\ \E i, j \in DOMAIN last.catalog :
          /\ i < j
          /\ i \notin Range(last.scoredIdx)
          /\ j \in Range(last.scoredIdx)
    /\ Len(last.matches) > 0

\* At most one load of each global; a failed products load leaves it unset.
C7_Inv ==
    /\ modelLoads <= 1
    /\ productsReads <= 1
    /\ (model = "loaded") <=> (modelLoads = 1)
    /\ products.loaded <=> (productsReads = 1)
    /\ (last.preload = "raised" /\ last.productsTried) => ~products.loaded

\* A set global is left alone; after a failed products load the next
\* request calls load_products again.
C7_Step ==
    /\ model = "loaded" => (model' = model /\ modelLoads' = modelLoads)
    /\ products.loaded => (products' = products /\ productsReads' = productsReads)
    /\ (served' = served + 1 /\ last.preload = "raised" /\ last.productsTried)
          => last'.productsTried

\* C7: the model is loaded at most once and products.json is read with
\* success at most once; once set, neither global is reloaded or changed by
\* a later request; a products load that failed leaves the global unset and
\* the next request attempts the load again.
C7_LoadedOnce == [](C7_Inv) /\ [][C7_Step]_vars

C7_Witness ==
    /\ products.loaded
    /\ ~file.exists
    /\ last.kind = "match" /\ last.status = 200 /\ last.preload = "skipped"
    /\ productsReads = 1 /\ modelLoads = 1
    /\ served >= 2

\* C8 as stated: the preload runs before the first handler and only once.
C8_PreloadRunsOnlyOnce ==
    /\ last.handlerRan => preloadRuns >= 1
    /\ preloadRuns <= 1

\* A handler has run only after a preload that loaded both globals.
C8_Inv ==
    last.handlerRan => (gotFirstRequest /\ model = "loaded" /\ products.loaded)

\* The preload runs at the start of a request exactly while the flag is
\* unset, and the handler runs exactly when the flag is set by then.
C8_Step ==
    /\ gotFirstRequest => (gotFirstRequest' /\ preloadRuns' = preloadRuns)
    /\ (~gotFirstRequest /\ served' = served + 1)
          => /\ preloadRuns' = preloadRuns + 1
             /\ last'.handlerRan <=> gotFirstRequest'

\* C8 as amended: no handler runs before a preload has completed, model and
\* products both loaded; a request whose preload raises is answered without
\* its handler, and the preload runs again at the start of every request
\* until it first completes; after that it never runs again.
C8_PreloadUntilComplete == [](C8_Inv) /\ [][C8_Step]_vars

C8_Witness ==
    /\ last.handlerRan
    /\ last.preload = "skipped"
    /\ preloadRuns >= 2
    /\ gotFirstRequest

C10_FileWins ==
    (last.kind = "match" /\ last.handlerRan /\ last.hasFile) =>
        /\ ~last.bodyRead
        /\ last.runs = 1
        /\ last.status = 200
        /\ last.fetched[1] = [src |-> "query", ref |-> "FILE"]
        /\ \A k \in DOMAIN last.fetched : last.fetched[k].ref # "http://query/img"

C10_Witness ==
    /\ last.kind = "match" /\ last.handlerRan
    /\ last.hasFile /\ last.bodyKind = "url"
    /\ last.status = 200

=============================================================================
